---- MODULE Spec2Model ----
(***************************************************************************)
(* A model of src/app.py: the Flask /upload handler (upload), the          *)
(* background worker it starts (upload_files), the per-chunk retry loop    *)
(* (next_chunk_with_retry), the transient-error classifier (is_transient)  *)
(* and the destination lookup (get_service).                               *)
(*                                                                         *)
(* Every batch b has its own worker; the staging directory UPLOAD_DIR is   *)
(* the state the handler and the workers share.                            *)
(***************************************************************************)
EXTENDS Integers, Sequences, FiniteSets, TLC

\* ------------------------------------------------------------------ bounds
NumBatches == 2
MaxReqFiles == 2
MaxCallFiles == 3

\* ------------------------------------------------------- program constants
CHUNK_SIZE == 262144
max_retries == 7
UPLOAD_DIR == "temp_uploads"
CUENTAS == {"c1"}

Batches == 1..NumBatches

\* ----------------------------------------------------- texts as characters
\* str(err) is modelled as a tuple of one-character strings, so that the
\* substring test of is_transient is computed and not assumed.
UpperChars == <<"A","B","C","D","E","F","G","H","I","J","K","L","M",
                "N","O","P","Q","R","S","T","U","V","W","X","Y","Z">>
LowerChars == <<"a","b","c","d","e","f","g","h","i","j","k","l","m",
                "n","o","p","q","r","s","t","u","v","w","x","y","z">>

LowerChar(c) ==
  IF \E k \in 1..26 : UpperChars[k] = c
  THEN LowerChars[CHOOSE k \in 1..26 : UpperChars[k] = c]
  ELSE c

lower(s) == [k \in 1..Len(s) |-> LowerChar(s[k])]

\* sig in s, Python's substring test
Contains(s, sig) ==
  \E off \in 0..(Len(s) - Len(sig)) :
    \A k \in 1..Len(sig) : s[off + k] = sig[k]

\* Variant: one signature is missing from the list.
SIGNATURES_no429 ==
  { <<"e","o","f"," ","o","c","c","u","r","r","e","d">>,
    <<"c","o","n","n","e","c","t","i","o","n"," ","r","e","s","e","t">>,
    <<"b","r","o","k","e","n"," ","p","i","p","e">>,
    <<"t","i","m","e","d"," ","o","u","t">>,
    <<"t","i","m","e","o","u","t">>,
    <<"s","s","l">>,
    <<"t","l","s">>,
    <<"r","e","s","e","t"," ","b","y"," ","p","e","e","r">>,
    <<"t","r","a","n","s","p","o","r","t"," ","c","l","o","s","e","d">>,
    <<"5","0","3">>,
    <<"5","0","0">> }

\* The signatures of is_transient.
SIGNATURES ==
  { <<"e","o","f"," ","o","c","c","u","r","r","e","d">>,
    <<"c","o","n","n","e","c","t","i","o","n"," ","r","e","s","e","t">>,
    <<"b","r","o","k","e","n"," ","p","i","p","e">>,
    <<"t","i","m","e","d"," ","o","u","t">>,
    <<"t","i","m","e","o","u","t">>,
    <<"s","s","l">>,
    <<"t","l","s">>,
    <<"r","e","s","e","t"," ","b","y"," ","p","e","e","r">>,
    <<"t","r","a","n","s","p","o","r","t"," ","c","l","o","s","e","d">>,
    <<"5","0","3">>,
    <<"5","0","0">>,
    <<"4","2","9">> }

\* An error value: its class and its text.
Err(cls, msg) == [cls |-> cls, msg |-> msg]
NoErr == Err("", <<>>)

is_transient(err) ==
  LET s == lower(err.msg)
  IN  \E sig \in SIGNATURES : Contains(s, sig)

\* The classes the except clause of next_chunk_with_retry catches.
CaughtClasses == {"HttpError", "OSError"}

\* The errors request.next_chunk() raises in this model.
ChunkErrors ==
  { Err("OSError", <<"B","r","o","k","e","n"," ","p","i","p","e">>),
    Err("HttpError", <<"4","0","4">>),
    Err("TransportError", <<"T","i","m","e","d"," ","o","u","t">>) }

\* ------------------------------------------------------------ the backoff
\* base_delay = 1.2 and the factor 0.12 are kept exact by scaling: sleep_s
\* below is the delay in units of 1/1000 s.
base_delay_x10 == 12
jitter_x100 == 12

RECURSIVE Pow2(_)
Pow2(n) == IF n = 0 THEN 1 ELSE 2 * Pow2(n - 1)

\* Variant: 2 * intento for 2 ** intento.
sleep_s_linear(n) == base_delay_x10 * (2 * n) * (100 + jitter_x100 * (n % 3))

\* sleep_s = base_delay * (2 ** intento) * (1 + 0.12 * (intento % 3))
sleep_s(n) == base_delay_x10 * Pow2(n) * (100 + jitter_x100 * (n % 3))

\* Variants of the guard: one retry too many; a retry for any caught error.
ShouldRetry_offByOne(n, e) ==
  /\ e.cls \in CaughtClasses
  /\ n <= max_retries
  /\ is_transient(e)

ShouldRetry_anyError(n, e) ==
  /\ e.cls \in CaughtClasses
  /\ n < max_retries

\* The guard of the retry branch of next_chunk_with_retry.
ShouldRetry(n, e) ==
  /\ e.cls \in CaughtClasses
  /\ n < max_retries
  /\ is_transient(e)

\* ------------------------------------------------------------ the library
\* request.next_chunk(): the resumable session of the remote client.  A call
\* that succeeds commits the next chunk; the first call that succeeds after a
\* failed one may find that the failed chunk had been committed as well.  It
\* returns (None, body) when every byte is committed and
\* (MediaUploadProgress, None) otherwise.
Min(a, b) == IF a <= b THEN a ELSE b

NextChunkResults(sent, total, recovering) ==
  { [sent |-> Min(sent + n * CHUNK_SIZE, total),
     done |-> (sent + n * CHUNK_SIZE >= total)] :
    n \in (IF recovering THEN {1, 2} ELSE {1}) }

\* Variant: the percentage taken of a chunk, not of the file.
Percent_ofChunk(sent, total) ==
  IF total = 0 THEN 0 ELSE (sent * 100) \div CHUNK_SIZE

\* int(status.progress() * 100); progress() is 0.0 for an empty file.  The
\* float product is taken as the exact quotient, rounded down.
Percent(sent, total) == IF total = 0 THEN 0 ELSE (sent * 100) \div total

\* --------------------------------------------------------------- the files
\* A path is <<directory, name>>; os.path.basename is its second component.
Path(name) == <<UPLOAD_DIR, name>>
basename(ruta) == ruta[2]

\* werkzeug's secure_filename on the names submitted in this model.
secure_filename(name) ==
  CASE name = "a.txt"    -> "a.txt"
    [] name = "../a.txt" -> "a.txt"
    [] name = "b.txt"    -> "b.txt"
    [] name = "c.txt"    -> "c.txt"
    [] name = "archivo"  -> "archivo"
    [] OTHER             -> ""

StagedNames == {"a.txt", "b.txt", "c.txt", "archivo"}
Paths == {Path(n) : n \in StagedNames}

NoFile == [sub |-> 0, k |-> 0, size |-> 0]
Content(b, k, size) == [sub |-> b, k |-> k, size |-> size]

\* A submitted file: its client-side name and the length of its content.
File(name, size) == [filename |-> name, size |-> size]

\* filename = secure_filename(f.filename or "archivo")
StagedName(f) ==
  secure_filename(IF f.filename = "" THEN "archivo" ELSE f.filename)

\* The loop of upload over the submitted files: the list rutas ...
RECURSIVE StageRutas(_)
StageRutas(files) ==
  IF files = <<>> THEN <<>>
  ELSE LET f == Head(files)
       IN  IF StagedName(f) = ""
           THEN StageRutas(Tail(files))
           ELSE <<Path(StagedName(f))>> \o StageRutas(Tail(files))

\* ... and the staging directory after every f.save(ruta): a later file of
\* the list overwrites an earlier one saved at the same path.
StageDisk(d, b, files) ==
  [p \in Paths |->
     LET ks == {k \in 1..Len(files) : StagedName(files[k]) # ""
                                       /\ Path(StagedName(files[k])) = p}
     IN  IF ks = {} THEN d[p]
         ELSE LET k == CHOOSE k \in ks : \A m \in ks : m <= k
              IN  Content(b, k, files[k].size)]

\* Sequences over S of length at most n.
SeqsUpTo(S, n) == UNION {[1..m -> S] : m \in 0..n}

\* ----------------------------------------------------------------- inputs
ReqCuentas == {"", "c1", "zz"}
ReqFiles == {File(n, 1) : n \in {"a.txt", "../a.txt", ".."}}
CallCuentas == {"c1", "zz"}
CallFiles == { File("a.txt", 0), File("b.txt", 2 * CHUNK_SIZE + 1),
               File("c.txt", 3 * CHUNK_SIZE) }
\* The staged files that are gone when upload_files starts: none, or b.txt.
CallMissing == {{}, {Path("b.txt")}}

\* ------------------------------------------------------------------ state
VARIABLES
  disk,    \* the staging directory: path -> content, or NoFile
  req,     \* per batch: the request submitted to /upload (cuenta, files)
  reply,   \* per batch: the HTTP response of upload, or NoReply
  w        \* per batch: the worker thread running upload_files

vars == <<disk, req, reply, w>>

NoReply == [code |-> 0, body |-> ""]
Reply(code, body) == [code |-> code, body |-> body]

\* An event of the worker as its callbacks see it.
Ev(t, n, of, name, e) == [t |-> t, n |-> n, of |-> of, name |-> name, e |-> e]
EvStart(i, total, nombre) == Ev("start", i, total, nombre, NoErr)
EvProgress(v) == Ev("progress", v, 0, "", NoErr)
EvOk == Ev("ok", 0, 0, "", NoErr)
EvFail(e) == Ev("fail", 0, 0, "", e)

IdleWorker ==
  [ pc      |-> "idle",   \* where the thread is
    cuenta  |-> "",
    rutas   |-> <<>>,
    i       |-> 0,        \* enumerate(rutas, start=1)
    intento |-> 0,
    calls   |-> 0,        \* request.next_chunk() calls of this invocation
    slept   |-> <<>>,     \* time.sleep arguments of this invocation
    sent    |-> 0,        \* resumable_progress of the open session
    total   |-> 0,        \* size of the open media
    src     |-> NoFile,   \* the content the open media reads
    called  |-> {},       \* files for which a transfer call was issued
    ndone   |-> 0,        \* sessions that reported done
    err     |-> NoErr,    \* the exception last raised (e)
    events  |-> <<>>,     \* progress_cb and status_cb calls, in order
    removed |-> <<>> ]    \* os.remove attempts, in order

StartedWorker(cuenta, rutas) ==
  [IdleWorker EXCEPT !.pc = "resolve", !.cuenta = cuenta, !.rutas = rutas]

\* ------------------------------------------------------------------ upload
\* Variant: the files are saved before the account is looked up.
upload_stageFirst(d, b, cuenta, files) ==
  IF cuenta = "" \/ files = <<>>
  THEN [reply |-> Reply(400, "Faltan parametros: cuenta y archivos"),
        disk |-> d, start |-> FALSE, rutas |-> <<>>]
  ELSE IF cuenta \notin CUENTAS
  THEN [reply |-> Reply(400, "Cuenta desconocida"),
        disk |-> StageDisk(d, b, files), start |-> FALSE, rutas |-> <<>>]
  ELSE IF StageRutas(files) = <<>>
  THEN [reply |-> Reply(400, "No se recibieron archivos validos"),
        disk |-> StageDisk(d, b, files), start |-> FALSE, rutas |-> <<>>]
  ELSE [reply |-> Reply(202, "Subida iniciada"),
        disk |-> StageDisk(d, b, files), start |-> TRUE,
        rutas |-> StageRutas(files)]

\* The /upload handler on the staging directory d: what it answers, what it
\* leaves on disk and whether it starts a worker (and with which rutas).
upload(d, b, cuenta, files) ==
  IF cuenta = "" \/ files = <<>>
  THEN [reply |-> Reply(400, "Faltan parametros: cuenta y archivos"),
        disk |-> d, start |-> FALSE, rutas |-> <<>>]
  ELSE IF cuenta \notin CUENTAS
  THEN [reply |-> Reply(400, "Cuenta desconocida"),
        disk |-> d, start |-> FALSE, rutas |-> <<>>]
  ELSE IF StageRutas(files) = <<>>
  THEN [reply |-> Reply(400, "No se recibieron archivos validos"),
        disk |-> StageDisk(d, b, files), start |-> FALSE, rutas |-> <<>>]
  ELSE [reply |-> Reply(202, "Subida iniciada"),
        disk |-> StageDisk(d, b, files), start |-> TRUE,
        rutas |-> StageRutas(files)]

\* One request to /upload; requests are numbered in the order they arrive.
Upload(b) ==
  /\ reply[b] = NoReply
  /\ \A a \in Batches : a < b => reply[a] # NoReply
  /\ w[b].pc = "idle"
  /\ \E cuenta \in ReqCuentas, files \in SeqsUpTo(ReqFiles, MaxReqFiles) :
       LET r == upload(disk, b, cuenta, files)
       IN  /\ req' = [req EXCEPT ![b] = [cuenta |-> cuenta, files |-> files]]
           /\ reply' = [reply EXCEPT ![b] = r.reply]
           /\ disk' = r.disk
           /\ w' = IF r.start
                   THEN [w EXCEPT ![b] = StartedWorker(cuenta, r.rutas)]
                   ELSE w

\* ------------------------------------------------------------- get_service
\* Variant: no check of the account name.
GetServiceOutcomes_noCheck(cuenta) ==
  {NoErr,
   Err("RefreshError",
       <<"i","n","v","a","l","i","d","_","g","r","a","n","t">>)}

\* What get_service does for cuenta: it raises KeyError for an unknown
\* account; for a known one it fails in the credential flow, returns a client
\* (the token file of the account is not part of this model).
GetServiceOutcomes(cuenta) ==
  IF cuenta \notin CUENTAS
  THEN {Err("KeyError", <<"C","u","e","n","t","a">>)}
  ELSE {NoErr,
        Err("RefreshError",
            <<"i","n","v","a","l","i","d","_","g","r","a","n","t">>)}

\* upload_files, lines 107-110: resolve the destination once.
GetService(b) ==
  /\ w[b].pc = "resolve"
  /\ \E e \in GetServiceOutcomes(w[b].cuenta) :
       w' = IF e # NoErr
            THEN [w EXCEPT ![b].pc = "except", ![b].err = e]
            ELSE [w EXCEPT ![b].pc = "next_file", ![b].i = 0]
  /\ UNCHANGED <<disk, req, reply>>

\* ------------------------------------------------------------ upload_files
\* Variant: the progress is reset before the start status is emitted.
StartFile_progressFirst(b) ==
  /\ w[b].pc = "next_file"
  /\ IF w[b].i < Len(w[b].rutas)
     THEN LET i == w[b].i + 1
              ruta == w[b].rutas[i]
              evs == w[b].events
                       \o <<EvProgress(0),
                            EvStart(i, Len(w[b].rutas), basename(ruta))>>
          IN  IF disk[ruta] = NoFile
              THEN w' = [w EXCEPT ![b].i = i, ![b].events = evs,
                                  ![b].pc = "except",
                                  ![b].err = Err("FileNotFoundError",
                                     <<"N","o"," ","s","u","c","h"," ",
                                       "f","i","l","e">>)]
              ELSE w' = [w EXCEPT ![b].i = i, ![b].events = evs,
                                  ![b].pc = "chunk",
                                  ![b].src = disk[ruta],
                                  ![b].total = disk[ruta].size,
                                  ![b].sent = 0,
                                  ![b].intento = 0, ![b].calls = 0,
                                  ![b].slept = <<>>]
     ELSE w' = [w EXCEPT ![b].pc = "finish"]
  /\ UNCHANGED <<disk, req, reply>>

\* Lines 112-119: the head of the loop over rutas.  The next file's start
\* status and progress 0 are emitted and its media is opened (which reads the
\* staged file's length); when the list is exhausted the loop is left.
StartFile(b) ==
  /\ w[b].pc = "next_file"
  /\ IF w[b].i < Len(w[b].rutas)
     THEN LET i == w[b].i + 1
              ruta == w[b].rutas[i]
              evs == w[b].events
                       \o <<EvStart(i, Len(w[b].rutas), basename(ruta)),
                            EvProgress(0)>>
          IN  IF disk[ruta] = NoFile
              THEN w' = [w EXCEPT ![b].i = i, ![b].events = evs,
                                  ![b].pc = "except",
                                  ![b].err = Err("FileNotFoundError",
                                     <<"N","o"," ","s","u","c","h"," ",
                                       "f","i","l","e">>)]
              ELSE w' = [w EXCEPT ![b].i = i, ![b].events = evs,
                                  ![b].pc = "chunk",
                                  ![b].src = disk[ruta],
                                  ![b].total = disk[ruta].size,
                                  ![b].sent = 0,
                                  ![b].intento = 0, ![b].calls = 0,
                                  ![b].slept = <<>>]
     ELSE w' = [w EXCEPT ![b].pc = "finish"]
  /\ UNCHANGED <<disk, req, reply>>

\* Variant: the retry count is carried over to the next chunk of the file.
ChunkOk_keepCount(b) ==
  /\ w[b].pc = "chunk"
  /\ \E r \in NextChunkResults(w[b].sent, w[b].total, w[b].intento > 0) :
       w' = IF r.done
            THEN [w EXCEPT ![b].err = NoErr,
                           ![b].called = @ \cup {w[b].i},
                           ![b].ndone = @ + 1,
                           ![b].pc = "next_file",
                           ![b].intento = 0, ![b].calls = 0,
                           ![b].slept = <<>>,
                           ![b].sent = 0, ![b].total = 0,
                           ![b].src = NoFile]
            ELSE [w EXCEPT ![b].sent = r.sent,
                           ![b].err = NoErr,
                           ![b].called = @ \cup {w[b].i},
                           ![b].events =
                              Append(@, EvProgress(Percent(r.sent, w[b].total)))]
  /\ UNCHANGED <<disk, req, reply>>

\* Lines 122-126 with line 66: request.next_chunk() returns.  A status is
\* reported through progress_cb; done leaves the loop of this file; otherwise
\* next_chunk_with_retry is entered again, with intento = 0.
ChunkOk(b) ==
  /\ w[b].pc = "chunk"
  /\ \E r \in NextChunkResults(w[b].sent, w[b].total, w[b].intento > 0) :
       w' = IF r.done
            THEN [w EXCEPT ![b].err = NoErr,
                           ![b].called = @ \cup {w[b].i},
                           ![b].ndone = @ + 1,
                           ![b].pc = "next_file",
                           ![b].intento = 0, ![b].calls = 0,
                           ![b].slept = <<>>,
                           ![b].sent = 0, ![b].total = 0,
                           ![b].src = NoFile]
            ELSE [w EXCEPT ![b].sent = r.sent,
                           ![b].err = NoErr,
                           ![b].called = @ \cup {w[b].i},
                           ![b].events =
                              Append(@, EvProgress(Percent(r.sent, w[b].total))),
                           ![b].intento = 0, ![b].calls = 0,
                           ![b].slept = <<>>]
  /\ UNCHANGED <<disk, req, reply>>

\* Lines 66-74: request.next_chunk() raises e.  The retry branch sleeps and
\* counts; otherwise e leaves next_chunk_with_retry and the loop.
ChunkFailWith(b, errors) ==
  /\ w[b].pc = "chunk"
  /\ \E e \in errors :
       w' = IF ShouldRetry(w[b].intento, e)
            THEN [w EXCEPT ![b].calls = @ + 1,
                           ![b].called = @ \cup {w[b].i},
                           ![b].err = e,
                           ![b].slept = Append(@, sleep_s(w[b].intento)),
                           ![b].intento = @ + 1]
            ELSE [w EXCEPT ![b].calls = @ + 1,
                           ![b].called = @ \cup {w[b].i},
                           ![b].pc = "except",
                           ![b].err = e]
  /\ UNCHANGED <<disk, req, reply>>

ChunkFail(b) == ChunkFailWith(b, ChunkErrors)

\* Variant: the success status is emitted before the last progress.
Finish_okFirst(b) ==
  /\ w[b].pc = "finish"
  /\ w' = [w EXCEPT ![b].pc = "cleanup",
                    ![b].events = @ \o <<EvOk, EvProgress(100)>>]
  /\ UNCHANGED <<disk, req, reply>>

\* Lines 128-129: every file is done.
Finish(b) ==
  /\ w[b].pc = "finish"
  /\ w' = [w EXCEPT ![b].pc = "cleanup",
                    ![b].events = @ \o <<EvProgress(100), EvOk>>]
  /\ UNCHANGED <<disk, req, reply>>

\* Variant: a failed file is reported and the loop goes on with the next one.
Except_continue(b) ==
  /\ w[b].pc = "except"
  /\ w' = [w EXCEPT ![b].pc = "next_file",
                    ![b].events = Append(@, EvFail(w[b].err)),
                    ![b].intento = 0, ![b].calls = 0, ![b].slept = <<>>,
                    ![b].sent = 0, ![b].total = 0, ![b].src = NoFile]
  /\ UNCHANGED <<disk, req, reply>>

\* Variant: the except clause catches the transfer errors only; any other
\* exception leaves upload_files through the finally clause, unreported.
Except_narrow(b) ==
  /\ w[b].pc = "except"
  /\ w' = [w EXCEPT ![b].pc = "cleanup",
                    ![b].events = IF w[b].err.cls \in CaughtClasses
                                  THEN Append(@, EvFail(w[b].err))
                                  ELSE @,
                    ![b].intento = 0, ![b].calls = 0, ![b].slept = <<>>,
                    ![b].sent = 0, ![b].total = 0, ![b].src = NoFile]
  /\ UNCHANGED <<disk, req, reply>>

\* Lines 130-131: the except clause of upload_files.  The frame of
\* next_chunk_with_retry and the open session are gone by now.
Except(b) ==
  /\ w[b].pc = "except"
  /\ w' = [w EXCEPT ![b].pc = "cleanup",
                    ![b].events = Append(@, EvFail(w[b].err)),
                    ![b].intento = 0, ![b].calls = 0, ![b].slept = <<>>,
                    ![b].sent = 0, ![b].total = 0, ![b].src = NoFile]
  /\ UNCHANGED <<disk, req, reply>>

\* os.remove(ruta): it fails when the file is gone and may fail for a file
\* that is there (a permission, a lock).
RemoveOutcomes(d, ruta) ==
  IF d[ruta] = NoFile THEN {FALSE} ELSE {TRUE, FALSE}

\* Variant: the first os.remove that fails ends the loop.
Cleanup_stopOnError(b) ==
  /\ w[b].pc = "cleanup"
  /\ IF Len(w[b].removed) < Len(w[b].rutas)
     THEN LET ruta == w[b].rutas[Len(w[b].removed) + 1]
          IN  \E ok \in RemoveOutcomes(disk, ruta) :
                /\ disk' = IF ok THEN [disk EXCEPT ![ruta] = NoFile] ELSE disk
                /\ w' = [w EXCEPT ![b].removed =
                                     Append(@, [ruta |-> ruta, ok |-> ok]),
                                  ![b].pc = IF ok THEN "cleanup" ELSE "done"]
     ELSE /\ w' = [w EXCEPT ![b].pc = "done"]
          /\ UNCHANGED disk
  /\ UNCHANGED <<req, reply>>

\* Variant: an os.remove that fails is attempted again, for ever if need be.
Cleanup_retryFailed(b) ==
  /\ w[b].pc = "cleanup"
  /\ IF Len(w[b].removed) < Len(w[b].rutas)
     THEN LET ruta == w[b].rutas[Len(w[b].removed) + 1]
          IN  \E ok \in RemoveOutcomes(disk, ruta) :
                /\ disk' = IF ok THEN [disk EXCEPT ![ruta] = NoFile] ELSE disk
                /\ w' = IF ok
                        THEN [w EXCEPT ![b].removed =
                                          Append(@, [ruta |-> ruta, ok |-> ok])]
                        ELSE w
     ELSE /\ w' = [w EXCEPT ![b].pc = "done"]
          /\ UNCHANGED disk
  /\ UNCHANGED <<req, reply>>

\* Variant: an os.remove that fails is reported through the status callback.
Cleanup_reportsError(b) ==
  /\ w[b].pc = "cleanup"
  /\ IF Len(w[b].removed) < Len(w[b].rutas)
     THEN LET ruta == w[b].rutas[Len(w[b].removed) + 1]
          IN  \E ok \in RemoveOutcomes(disk, ruta) :
                /\ disk' = IF ok THEN [disk EXCEPT ![ruta] = NoFile] ELSE disk
                /\ w' = [w EXCEPT ![b].removed =
                                     Append(@, [ruta |-> ruta, ok |-> ok]),
                                  ![b].events =
                                     IF ok THEN @
                                     ELSE Append(@, EvFail(Err("OSError", <<>>)))]
     ELSE /\ w' = [w EXCEPT ![b].pc = "done"]
          /\ UNCHANGED disk
  /\ UNCHANGED <<req, reply>>

\* Lines 132-138: one iteration of the finally clause, or its end.
Cleanup(b) ==
  /\ w[b].pc = "cleanup"
  /\ IF Len(w[b].removed) < Len(w[b].rutas)
     THEN LET ruta == w[b].rutas[Len(w[b].removed) + 1]
          IN  \E ok \in RemoveOutcomes(disk, ruta) :
                /\ disk' = IF ok THEN [disk EXCEPT ![ruta] = NoFile] ELSE disk
                /\ w' = [w EXCEPT ![b].removed =
                                     Append(@, [ruta |-> ruta, ok |-> ok])]
     ELSE /\ w' = [w EXCEPT ![b].pc = "done"]
          /\ UNCHANGED disk
  /\ UNCHANGED <<req, reply>>

Worker(b) ==
  \/ GetService(b)
  \/ StartFile(b)
  \/ ChunkOk(b)
  \/ ChunkFail(b)
  \/ Finish(b)
  \/ Except(b)
  \/ Cleanup(b)

\* --------------------------------------------------------- specifications
NoReq == [cuenta |-> "", files |-> <<>>]

\* The server: no request yet, an empty staging directory.
Init ==
  /\ disk = [p \in Paths |-> NoFile]
  /\ req = [b \in Batches |-> NoReq]
  /\ reply = [b \in Batches |-> NoReply]
  /\ w = [b \in Batches |-> IdleWorker]

Next == \E b \in Batches : Upload(b) \/ Worker(b)

Spec == Init /\ [][Next]_vars

\* upload_files called on its own, as batch 1, for any account name and any
\* list of files staged for it; a staged file may be missing.
InitCall ==
  \E cuenta \in CallCuentas, files \in SeqsUpTo(CallFiles, MaxCallFiles),
     gone \in CallMissing :
    /\ disk = [p \in Paths |->
                 IF p \in gone THEN NoFile
                 ELSE StageDisk([q \in Paths |-> NoFile], 1, files)[p]]
    /\ req = [b \in Batches |->
                IF b = 1 THEN [cuenta |-> cuenta, files |-> files] ELSE NoReq]
    /\ reply = [b \in Batches |-> NoReply]
    /\ w = [b \in Batches |->
              IF b = 1 THEN StartedWorker(cuenta, StageRutas(files))
              ELSE IdleWorker]

NextCall == \E b \in Batches : Worker(b)

SpecCall == InitCall /\ [][NextCall]_vars

\* The worker thread is scheduled: a step of upload_files that can be taken is
\* taken in the end.  Every request.next_chunk() and time.sleep() call of the
\* model returns, and a chunk call that succeeds commits at least one byte.
SpecLive ==
  InitCall /\ [][NextCall]_vars /\ \A b \in Batches : WF_vars(Worker(b))

\* ================================================================ claims
HasEv(evs, t) == \E k \in DOMAIN evs : evs[k].t = t
IsStart(e) == e.t = "start"
Starts(evs) == SelectSeq(evs, IsStart)
Terminal(e) == e.t \in {"ok", "fail"}
Terminals(evs) == {k \in DOMAIN evs : Terminal(evs[k])}
FromChunk(b) == w[b].err \in ChunkErrors
Retriable(e) == e.cls \in CaughtClasses /\ is_transient(e)

\* C1: in one call of next_chunk_with_retry the retries never exceed
\* max_retries: every retry is one sleep, at most max_retries + 1 transfer
\* calls are made, and a transient failure reaches the coordinator only after
\* exactly max_retries retries and max_retries + 1 calls.
C1_RetriesBounded ==
  \A b \in Batches :
    /\ w[b].intento <= max_retries
    /\ Len(w[b].slept) = w[b].intento
    /\ w[b].calls <= max_retries + 1
    /\ w[b].pc = "chunk" => w[b].calls = w[b].intento
    /\ (w[b].pc = "except" /\ FromChunk(b) /\ Retriable(w[b].err))
         => /\ w[b].intento = max_retries
            /\ w[b].calls = max_retries + 1

C1_Witness ==
  \E b \in Batches :
    /\ w[b].pc = "except"
    /\ Retriable(w[b].err)
    /\ w[b].calls = max_retries + 1
    /\ Len(w[b].slept) = max_retries

\* C2 (as claimed): for every file whose session reported done, progress 100
\* is issued after the file's start status and before any other event that is
\* not a progress event.
C2_FinalProgressPerFile ==
  \A b \in Batches :
    LET evs == w[b].events
    IN  \A p \in DOMAIN evs :
          ( /\ evs[p].t = "start"
            /\ evs[p].n <= w[b].ndone
            /\ \E q \in DOMAIN evs : q > p /\ evs[q].t # "progress" )
          => \E r \in DOMAIN evs :
               /\ r > p
               /\ evs[r] = EvProgress(100)
               /\ \A m \in (p + 1)..r : evs[m].t = "progress"

\* C3: once a batch has failed, at file k (k = 0: before the first file), the
\* status callback has received the start statuses of files 1..k in order and
\* then the failure status as its last event; no success status is emitted and
\* no transfer call is issued for a file after k.
C3_FailFast ==
  \A b \in Batches :
    LET evs == w[b].events
        st == Starts(evs)
    IN  HasEv(evs, "fail") =>
          /\ evs[Len(evs)].t = "fail"
          /\ Cardinality(Terminals(evs)) = 1
          /\ ~HasEv(evs, "ok")
          /\ Len(st) = w[b].i
          /\ \A k \in DOMAIN st : st[k].n = k
          /\ w[b].called \subseteq 1..w[b].i
          /\ w[b].ndone < w[b].i \/ w[b].i = 0
          /\ w[b].pc \in {"cleanup", "done"}

C3_Witness ==
  \E b \in Batches :
    /\ w[b].pc = "done"
    /\ Len(w[b].rutas) = 3
    /\ w[b].i = 2
    /\ w[b].ndone = 1
    /\ w[b].called = {1, 2}
    /\ HasEv(w[b].events, "fail")

\* C4: deletions are attempted only after the terminal status, in the order
\* of rutas; a batch that has ended has attempted one for every staged file,
\* whatever the outcome of the batch and of the earlier deletions; the
\* deletions add no event.
C4_Cleanup ==
  \A b \in Batches :
    LET evs == w[b].events
    IN  /\ w[b].removed # <<>> => w[b].pc \in {"cleanup", "done"}
        /\ w[b].pc \in {"cleanup", "done"}
             => /\ evs # <<>>
                /\ Terminals(evs) = {Len(evs)}
        /\ Len(w[b].removed) <= Len(w[b].rutas)
        /\ \A j \in DOMAIN w[b].removed : w[b].removed[j].ruta = w[b].rutas[j]
        /\ w[b].pc = "done" => Len(w[b].removed) = Len(w[b].rutas)

C4_Witness ==
  \E b \in Batches :
    /\ w[b].pc = "done"
    /\ w[b].i = 0
    /\ HasEv(w[b].events, "fail")
    /\ Len(w[b].removed) = 3
    /\ ~w[b].removed[1].ok
    /\ w[b].removed[2].ok
    /\ ~w[b].removed[3].ok

\* C5 (as claimed): while a batch is running, before its terminal status,
\* every file staged for it still holds what its own intake wrote: no other
\* batch has overwritten or deleted it.
C5_NoSharedStaging ==
  \A b \in Batches :
    w[b].pc \in {"resolve", "next_file", "chunk", "finish", "except"}
      => \A k \in DOMAIN w[b].rutas : disk[w[b].rutas[k]].sub = b

\* C6 (as claimed): a transfer failure whose error is transient is propagated
\* to the coordinator only when max_retries retries have been made; with
\* fewer, whatever the class of the error, it is retried.
C6_TransientAlwaysRetried ==
  \A b \in Batches :
    (w[b].pc = "except" /\ FromChunk(b) /\ is_transient(w[b].err))
      => w[b].intento = max_retries

\* C7: a retry is made only for a transient error; a non-transient transfer
\* failure reaches the coordinator from the call that raised it, at any
\* attempt count, with no sleep after it.
C7_FatalAtOnce ==
  \A b \in Batches :
    /\ w[b].pc = "chunk" => (w[b].err = NoErr \/ is_transient(w[b].err))
    /\ w[b].pc = "chunk" /\ w[b].intento > 0 => w[b].err # NoErr
    /\ (w[b].pc = "except" /\ FromChunk(b) /\ ~is_transient(w[b].err))
         => /\ w[b].calls = w[b].intento + 1
            /\ Len(w[b].slept) = w[b].intento

C7_Witness ==
  \E b \in Batches :
    /\ w[b].pc = "except"
    /\ FromChunk(b)
    /\ ~is_transient(w[b].err)
    /\ w[b].intento = 3
    /\ w[b].calls = 4

\* C8: within a session bytesSent stays within 0..totalBytes and never
\* decreases; every percent passed to progress_cb is in 0..100 and the
\* percents of one file, from its reset to 0 on, never decrease.
C8_State ==
  \A b \in Batches :
    LET evs == w[b].events
    IN  /\ 0 <= w[b].sent /\ w[b].sent <= w[b].total
        /\ \A p \in DOMAIN evs :
             evs[p].t = "progress" => evs[p].n \in 0..100
        /\ \A p, q \in DOMAIN evs :
             ( /\ p < q
               /\ evs[p].t = "progress" /\ evs[q].t = "progress"
               /\ \A m \in p..q : evs[m].t # "start" )
             => evs[p].n <= evs[q].n

C8_Step ==
  \A b \in Batches :
    (w[b].pc = "chunk" /\ w'[b].pc = "chunk") => w'[b].sent >= w[b].sent

\* C8: the state part holds in every state and the step part in every step.
C8_ProgressMonotone == [](C8_State) /\ [][C8_Step]_vars

\* A chunk that was retried, then progress past the retried chunk.
C8_Witness ==
  \E b \in Batches :
    LET evs == w[b].events
    IN  /\ w[b].pc = "chunk"
        /\ w[b].total = 3 * CHUNK_SIZE
        /\ w[b].sent = 2 * CHUNK_SIZE
        /\ Len(evs) >= 3
        /\ evs[Len(evs)] = EvProgress(66)
        /\ evs[Len(evs) - 1] = EvProgress(0)

\* C9: a batch for an account that is not configured resolves once, opens no
\* session, issues no transfer call and no start status, ends with a failure
\* status as its only event and still attempts every deletion.
C9_UnknownDestination ==
  \A b \in Batches :
    (w[b].pc # "idle" /\ w[b].cuenta \notin CUENTAS)
      => /\ w[b].pc \in {"resolve", "except", "cleanup", "done"}
         /\ w[b].i = 0
         /\ w[b].called = {}
         /\ w[b].calls = 0
         /\ w[b].pc \in {"resolve", "except"} => w[b].events = <<>>
         /\ w[b].pc \in {"cleanup", "done"}
              => /\ Len(w[b].events) = 1
                 /\ w[b].events[1].t = "fail"
                 /\ w[b].events[1].e.cls = "KeyError"
         /\ w[b].pc = "done" => Len(w[b].removed) = Len(w[b].rutas)

C9_Witness ==
  \E b \in Batches :
    /\ w[b].cuenta \notin CUENTAS
    /\ w[b].pc = "done"
    /\ Len(w[b].rutas) = 2
    /\ \A j \in DOMAIN w[b].removed : w[b].removed[j].ok
    /\ \A p \in Paths : disk[p] = NoFile

\* C10: a request whose account is missing or not configured, or that has no
\* file, is answered 400 with a reason; a request answered 400 starts no
\* worker and leaves no file of its own in the staging directory.
C10_Rejected ==
  \A b \in Batches :
    reply[b] # NoReply =>
      /\ (req[b].cuenta \notin CUENTAS \/ req[b].files = <<>>)
           => reply[b].code = 400
      /\ reply[b].code = 400
           => /\ reply[b].body # ""
              /\ w[b].pc = "idle"
              /\ \A p \in Paths : disk[p].sub # b

C10_Witness ==
  \E b \in Batches :
    /\ reply[b].code = 400
    /\ req[b].cuenta = "zz"
    /\ Len(req[b].files) = 2
    /\ StageRutas(req[b].files) # <<>>
\* C11: the request of a started batch is answered 202 in the step that
\* starts the worker, and the answer stays 202 whatever the batch does; every
\* error raised in the batch (get_service, opening a file, a transfer call)
\* has become the failure status, the last event, when the cleanup starts.
C11_ErrorsBecomeStatus ==
  \A b \in Batches :
    /\ w[b].pc # "idle" => reply[b] = Reply(202, "Subida iniciada")
    /\ w[b].pc \in {"cleanup", "done"}
         => /\ w[b].events # <<>>
            /\ w[b].events[Len(w[b].events)] =
                 (IF w[b].err = NoErr THEN EvOk ELSE EvFail(w[b].err))

\* A batch whose file was gone when its media was opened has ended.
C11_Witness ==
  \E b \in Batches :
    /\ reply[b].code = 202
    /\ w[b].pc = "done"
    /\ w[b].err.cls = "FileNotFoundError"
    /\ w[b].events[Len(w[b].events)].t = "fail"
\* C12: the start statuses carry 1, 2, ... and the names of rutas in the
\* order of the list, each is immediately followed by progress 0, the files
\* before the current one have all reported done before a transfer call is
\* issued for it, and between two start statuses there are only progress
\* events.
C12_EventOrder ==
  \A b \in Batches :
    LET evs == w[b].events
        st == Starts(evs)
    IN  /\ Len(st) = w[b].i
        /\ \A k \in DOMAIN st :
             st[k] = EvStart(k, Len(w[b].rutas), basename(w[b].rutas[k]))
        /\ \A p \in DOMAIN evs :
             evs[p].t = "start" => (p < Len(evs) /\ evs[p + 1] = EvProgress(0))
        /\ \A p, q \in DOMAIN evs :
             (p < q /\ evs[q].t = "start") => evs[p].t \in {"start", "progress"}
        /\ w[b].called \subseteq 1..w[b].i
        /\ w[b].ndone <= w[b].i
        /\ w[b].pc = "chunk" => w[b].ndone = w[b].i - 1
        /\ \A k \in w[b].called : k < w[b].i => k <= w[b].ndone

\* Three files uploaded in order, each with its own progress events.
C12_Witness ==
  \E b \in Batches :
    /\ w[b].pc = "done"
    /\ w[b].ndone = 3
    /\ w[b].called = {1, 2, 3}
    /\ w[b].rutas = <<Path("c.txt"), Path("a.txt"), Path("b.txt")>>
    /\ HasEv(w[b].events, "ok")
\* C13: a batch that has emitted its terminal status has emitted the success
\* status exactly when every session reported done and nothing failed; the
\* success status is the last event, right after progress 100, and is never
\* emitted together with a failure status or before the last file is done.
C13_SuccessStatus ==
  \A b \in Batches :
    LET evs == w[b].events
        n == Len(evs)
    IN  /\ HasEv(evs, "ok")
             => /\ n >= 2
                /\ evs[n] = EvOk
                /\ evs[n - 1] = EvProgress(100)
                /\ \A k \in 1..(n - 1) : evs[k].t # "ok"
                /\ ~HasEv(evs, "fail")
                /\ w[b].ndone = Len(w[b].rutas)
                /\ w[b].i = Len(w[b].rutas)
                /\ w[b].pc \in {"cleanup", "done"}
        /\ w[b].pc \in {"cleanup", "done"}
             => (HasEv(evs, "ok") <=> ~HasEv(evs, "fail"))
        /\ (w[b].pc \in {"cleanup", "done"} /\ w[b].rutas # <<>>
              /\ w[b].ndone = Len(w[b].rutas))
             => HasEv(evs, "ok")

\* Two files, the second needing three calls, all done.
C13_Witness ==
  \E b \in Batches :
    LET evs == w[b].events
    IN  /\ w[b].pc = "cleanup"
        /\ w[b].rutas = <<Path("a.txt"), Path("c.txt")>>
        /\ w[b].ndone = 2
        /\ Len(evs) = 8
        /\ evs[6] = EvProgress(66)
        /\ evs[7] = EvProgress(100)
        /\ evs[8] = EvOk
\* -------------------------------------------------- the classifier at work
\* The texts of the errors a transfer call raises, for the claims about
\* is_transient: network and server failures ...
NetworkErrors ==
  {
    Err("OSError", <<"t","i","m","e","o","u","t">>),
    Err("OSError", <<"R","e","a","d"," ","T","i","m","e","o","u","t">>),
    Err("OSError", <<"c","o","n","n","e","c","t","i","o","n"," ","r","e","s","e","t">>),
    Err("OSError", <<"C","o","n","n","e","c","t","i","o","n"," ","r","e","s","e","t"," ","b","y"," ","p","e","e","r">>),
    Err("OSError", <<"s","t","r","e","a","m"," ","r","e","s","e","t">>),
    Err("HttpError", <<"5","0","3">>),
    Err("HttpError", <<"H","T","T","P"," ","5","0","0"," ","x">>),
    Err("HttpError", <<"4","2","9">>),
    Err("OSError", <<"s","s","l">>),
    Err("OSError", <<"t","l","s">>),
    Err("OSError", <<"b","r","o","k","e","n"," ","p","i","p","e">>),
    Err("OSError", <<"t","i","m","e","d"," ","o","u","t">>),
    Err("OSError", <<"E","O","F"," ","o","c","c","u","r","r","e","d">>),
    Err("OSError", <<"t","r","a","n","s","p","o","r","t"," ","c","l","o","s","e","d">>) }

\* ... and errors that are permanent by their kind: a malformed request, an
\* authorization failure, a permanent quota error, an unknown file, a local
\* I/O error while the source file is read.
PermanentErrors ==
  {
    Err("HttpError", <<"4","0","0"," ","i","n","v","a","l","i","d">>),
    Err("HttpError", <<"4","0","1"," ","i","n","v","a","l","i","d","_","g","r","a","n","t">>),
    Err("HttpError", <<"4","0","3"," ","q","u","o","t","a"," ","1","5","0","0">>),
    Err("HttpError", <<"4","0","4">>),
    Err("OSError", <<"I","n","p","u","t","/","o","u","t","p","u","t"," ","e","r","r","o","r">>) }

TextErrors == NetworkErrors \cup PermanentErrors

\* request.next_chunk() raising any of these errors.
ChunkRaises(b) == ChunkFailWith(b, TextErrors)

\* upload_files on one staged file of a configured account.
InitClassify ==
  \E f \in CallFiles :
    /\ disk = StageDisk([q \in Paths |-> NoFile], 1, <<f>>)
    /\ req = [b \in Batches |->
                IF b = 1 THEN [cuenta |-> "c1", files |-> <<f>>] ELSE NoReq]
    /\ reply = [b \in Batches |-> NoReply]
    /\ w = [b \in Batches |->
              IF b = 1 THEN StartedWorker("c1", StageRutas(<<f>>))
              ELSE IdleWorker]

NextClassify ==
  \E b \in Batches :
    \/ GetService(b)
    \/ StartFile(b)
    \/ ChunkOk(b)
    \/ ChunkRaises(b)
    \/ Finish(b)
    \/ Except(b)
    \/ Cleanup(b)

SpecClassify == InitClassify /\ [][NextClassify]_vars

HasWord(msg, words) == \E word \in words : Contains(msg, word)

ClaimedWords ==
  { <<"t","i","m","e","o","u","t">>,
    <<"r","e","s","e","t">>,
    <<"5","0","3">>,
    <<"5","0","0">>,
    <<"4","2","9">>,
    <<"s","s","l">>,
    <<"t","l","s">>,
    <<"b","r","o","k","e","n"," ","p","i","p","e">> }

AmendedWords ==
  { <<"t","i","m","e","o","u","t">>,
    <<"c","o","n","n","e","c","t","i","o","n"," ","r","e","s","e","t">>,
    <<"r","e","s","e","t"," ","b","y"," ","p","e","e","r">>,
    <<"5","0","3">>,
    <<"5","0","0">>,
    <<"4","2","9">>,
    <<"s","s","l">>,
    <<"t","l","s">>,
    <<"b","r","o","k","e","n"," ","p","i","p","e">> }

\* C14 (as claimed): every error whose text contains "timeout", "reset",
\* "503", "500", "429", "ssl", "tls" or "broken pipe" is classified transient.
C14_ClaimedSignatures ==
  \A b \in Batches :
    (w[b].err # NoErr /\ HasWord(w[b].err.msg, ClaimedWords))
      => is_transient(w[b].err)

\* C14 (amended): every error whose text contains "timeout", "connection
\* reset", "reset by peer", "503", "500", "429", "ssl", "tls" or "broken
\* pipe" is classified transient, and such an error of a caught class is
\* passed on to upload_files only when the retries are used up.
C14_Signatures ==
  \A b \in Batches :
    (w[b].err # NoErr /\ HasWord(w[b].err.msg, AmendedWords))
      => /\ is_transient(w[b].err)
         /\ (w[b].pc = "except" /\ w[b].err.cls \in CaughtClasses)
              => w[b].intento = max_retries

\* A server error in a longer text was retried.
C14_Witness ==
  \E b \in Batches :
    /\ w[b].pc = "chunk"
    /\ w[b].intento = 2
    /\ w[b].err = Err("HttpError", <<"H","T","T","P"," ","5","0","0"," ","x">>)

\* C15 (as claimed): an error that is permanent by its kind is classified
\* non-transient, whatever its text, and so is never retried.
C15_PermanentNotTransient ==
  \A b \in Batches :
    w[b].err \in PermanentErrors
      => /\ ~is_transient(w[b].err)
         /\ w[b].pc # "chunk"
\* C16: in units of 1/1000 s, the delay of attempt 0 is 1200 (base_delay),
\* the delay is strictly increasing over the attempts 0..max_retries, and the
\* delays waited for one chunk are those of the attempts 0, 1, 2, ... in
\* that order.
C16_Backoff ==
  /\ sleep_s(0) = 1200
  /\ \A n \in 0..(max_retries - 1) : sleep_s(n) < sleep_s(n + 1)
  /\ \A b \in Batches :
       LET sl == w[b].slept
       IN  /\ sl # <<>> => sl[1] = 1200
           /\ \A k \in DOMAIN sl : sl[k] = sleep_s(k - 1)
           /\ \A k \in DOMAIN sl : k < Len(sl) => sl[k] < sl[k + 1]

\* One chunk after max_retries sleeps: 1.2 s first, 76.8 s last.
C16_Witness ==
  \E b \in Batches :
    /\ w[b].pc = "chunk"
    /\ Len(w[b].slept) = max_retries
    /\ w[b].slept[1] = 1200
    /\ w[b].slept[2] = 2688
    /\ w[b].slept[3] = 5952
    /\ w[b].slept[max_retries] = 76800
\* C17: the retry count belongs to one chunk.  While a file's session runs,
\* a step either retries the same chunk (bytesSent unchanged, the count one
\* higher and at most max_retries) or moves on to a new chunk with the count
\* back at 0; a session starts with the count at 0; and a transient failure
\* of a caught class ends the session only when the count is max_retries.
C17_State == \A b \in Batches : w[b].intento \in 0..max_retries

C17_Step ==
  \A b \in Batches :
    /\ (w[b].pc = "chunk" /\ w'[b].pc = "chunk")
         => \/ w'[b] = w[b]
            \/ /\ w'[b].sent = w[b].sent
               /\ w'[b].intento = w[b].intento + 1
               /\ w'[b].intento <= max_retries
            \/ /\ w'[b].sent > w[b].sent
               /\ w'[b].intento = 0
    /\ (w[b].pc # "chunk" /\ w'[b].pc = "chunk") => w'[b].intento = 0
    /\ (w[b].pc = "chunk" /\ w'[b].pc = "except" /\ Retriable(w'[b].err))
         => w[b].intento = max_retries

C17_RetryCountPerChunk == [](C17_State) /\ [][C17_Step]_vars

\* The third chunk of a second file at its last retry.
C17_Witness ==
  \E b \in Batches :
    /\ w[b].pc = "chunk"
    /\ w[b].ndone = 1
    /\ w[b].total = 3 * CHUNK_SIZE
    /\ w[b].sent = 2 * CHUNK_SIZE
    /\ w[b].intento = max_retries
\* C18: a batch run emits exactly one terminal status: never two, never both
\* the success and a failure status, and one is there once the run has left
\* the try block; after it the run emits no further event and makes no
\* further transfer call (no session opens, advances or reports done).
C18_State ==
  \A b \in Batches :
    LET evs == w[b].events
    IN  /\ Cardinality(Terminals(evs)) <= 1
        /\ ~(HasEv(evs, "ok") /\ HasEv(evs, "fail"))
        /\ w[b].pc \in {"cleanup", "done"} <=> Cardinality(Terminals(evs)) = 1

C18_Step ==
  \A b \in Batches :
    Terminals(w[b].events) # {}
      => /\ w'[b].events = w[b].events
         /\ w'[b].calls = w[b].calls
         /\ w'[b].called = w[b].called
         /\ w'[b].sent = w[b].sent
         /\ w'[b].ndone = w[b].ndone
         /\ w'[b].i = w[b].i

C18_OneTerminalStatus == [](C18_State) /\ [][C18_Step]_vars

\* A successful run whose cleanup met a removal that failed, and is over.
C18_Witness ==
  \E b \in Batches :
    /\ w[b].pc = "done"
    /\ HasEv(w[b].events, "ok")
    /\ w[b].ndone = 2
    /\ \E j \in DOMAIN w[b].removed : ~w[b].removed[j].ok
\* C19: a run of upload_files that has started emits its terminal status in
\* the end, and a run that has emitted it ends with the cleanup complete:
\* one os.remove attempted for each staged path, after the terminal status.
C19_Started(b) == w[b].pc \notin {"idle", "done"}

C19_Emitted(b) == Cardinality(Terminals(w[b].events)) = 1

C19_CleanedUp(b) ==
  /\ w[b].pc = "done"
  /\ C19_Emitted(b)
  /\ Len(w[b].removed) = Len(w[b].rutas)

C19_Terminates ==
  \A b \in Batches :
    /\ C19_Started(b) ~> C19_Emitted(b)
    /\ C19_Emitted(b) ~> C19_CleanedUp(b)

\* A run that ended after one file went through and the next one used up its
\* retries on a later chunk, with a removal that failed during cleanup.
C19_Witness ==
  \E b \in Batches :
    /\ C19_CleanedUp(b)
    /\ w[b].ndone = 1
    /\ w[b].called = {1, 2}
    /\ HasEv(w[b].events, "fail")
    /\ Retriable(w[b].err)
    /\ \E j \in DOMAIN w[b].removed : ~w[b].removed[j].ok
\* C20 (as claimed): the staged paths handed to the worker of an accepted
\* request are pairwise distinct, so each of them names a file of its own.
C20_DistinctStaging ==
  \A b \in Batches :
    w[b].pc # "idle"
      => \A j, k \in DOMAIN w[b].rutas :
           j # k => w[b].rutas[j] # w[b].rutas[k]
====
